---------------------------- MODULE Spec2Model ----------------------------
(***************************************************************************)
(* Model of polar-core/src/kb.rs: the KnowledgeBase of scopes holding      *)
(* constants, rule templates and rules, and the rule/template              *)
(* compatibility check that add_rule runs.                                 *)
(***************************************************************************)
EXTENDS Integers, Sequences, FiniteSets, TLC

(***************************************************************************)
(* Bounds of the model.                                                    *)
(***************************************************************************)
\* longest parameter list of the rules given to check_rule_compatibility
MaxArity == 2
\* number of add_rule_template calls in a run that records them
MaxTemplates == 2
\* number of rule clauses stored in the knowledge base at one time
MaxClauses == 2
\* number of sources, one inline query each, loaded at one time
MaxInline == 1

(***************************************************************************)
(* Terms.  A Value is a variable or a number; a specializer is absent      *)
(* (Option::None), an instance pattern (tag and fields) or a dictionary    *)
(* pattern (fields only), the specializer shape that is not an instance    *)
(* pattern.                                                                *)
(***************************************************************************)
Variable(n) == [kind |-> "Variable", name |-> n, num |-> 0]
Number(k) == [kind |-> "Number", name |-> "", num |-> k]

NoFields == [f \in {} |-> 0]
FieldsK(v) == [f \in {"k"} |-> v]
FieldsJ(v) == [f \in {"j"} |-> v]
FieldsKJ(v, w) == [f \in {"k", "j"} |-> IF f = "k" THEN v ELSE w]

None == [kind |-> "None", tag |-> "", fields |-> NoFields]
Instance(t, fs) == [kind |-> "Instance", tag |-> t, fields |-> fs]
Dictionary(fs) == [kind |-> "Dictionary", tag |-> "", fields |-> fs]

Parameter(v, s) == [parameter |-> v, specializer |-> s]
Rule(n, ps) == [name |-> n, params |-> ps]

IsVariable(v) == v.kind = "Variable"
IsSome(s) == s.kind # "None"
IsInstance(s) == s.kind = "Instance"

(***************************************************************************)
(* The inputs of the compatibility check.                                  *)
(***************************************************************************)
FieldMaps ==
    {NoFields, FieldsK(1), FieldsK(2), FieldsJ(1), FieldsKJ(1, 1), FieldsKJ(2, 1)}

InstancePatterns == {Instance(t, fs) : t \in {"A", "B"}, fs \in FieldMaps}

Specializers == {None, Dictionary(FieldsK(1))} \cup InstancePatterns

\* every shape of parameter the check tells apart
ParamUniverse ==
    {Parameter(Variable("x"), s) : s \in Specializers}
        \cup {Parameter(Number(k), s) : k \in {1, 2}, s \in {None, Instance("A", NoFields)}}

\* the parameters that fill the positions next to the one under study
OtherParams ==
    { Parameter(Variable("x"), None),
      Parameter(Number(1), None),
      Parameter(Variable("x"), Instance("A", NoFields)) }

ParamLists ==
    UNION { { ps \in [1..n -> ParamUniverse] :
                Cardinality({i \in 1..n : ps[i] \notin OtherParams}) <= 1 }
            : n \in 0..MaxArity }

(***************************************************************************)
(* check_rule_compatibility.                                               *)
(***************************************************************************)
Min(a, b) == IF a < b THEN a ELSE b

\* all_fields_match asking only that the rule names each template field
all_fields_match_names_only(template_spec, rule_spec) ==
    \A k \in DOMAIN template_spec.fields : k \in DOMAIN rule_spec.fields

\* all template fields must match those in rule fields
all_fields_match(template_spec, rule_spec) ==
    \A k \in DOMAIN template_spec.fields :
        /\ k \in DOMAIN rule_spec.fields
        /\ rule_spec.fields[k] = template_spec.fields[k]

\* parameter_matches with the (variable, no specializer) arm taken only for a
\* rule parameter that has no specializer either
parameter_matches_rule_unspecialized(rule_param, template_param) ==
    LET tv == template_param.parameter
        ts == template_param.specializer
        rv == rule_param.parameter
        rs == rule_param.specializer
    IN  IF IsVariable(tv) /\ IsInstance(ts) /\ IsVariable(rv) /\ IsInstance(rs)
        THEN IF ts.tag = rs.tag /\ all_fields_match(ts, rs)
             THEN "match" ELSE "nomatch"
        ELSE IF IsVariable(tv) /\ IsSome(ts) /\ IsVariable(rv) /\ ~IsSome(rs)
        THEN "nomatch"
        ELSE IF IsVariable(tv) /\ IsSome(ts) /\ ~IsSome(rs)
        THEN "unimplemented"
        ELSE IF IsVariable(tv) /\ ~IsSome(ts) /\ ~IsSome(rs)
        THEN "match"
        ELSE IF ~IsSome(ts) /\ ~IsSome(rs)
        THEN IF tv = rv THEN "match" ELSE "nomatch"
        ELSE "nomatch"

\* the match over one zipped pair: "match", "nomatch" or "unimplemented"
\* (the arm that panics)
parameter_matches(rule_param, template_param) ==
    LET tv == template_param.parameter
        ts == template_param.specializer
        rv == rule_param.parameter
        rs == rule_param.specializer
    IN  IF IsVariable(tv) /\ IsInstance(ts) /\ IsVariable(rv) /\ IsInstance(rs)
        THEN IF ts.tag = rs.tag /\ all_fields_match(ts, rs)
             THEN "match" ELSE "nomatch"
        ELSE IF IsVariable(tv) /\ IsSome(ts) /\ IsVariable(rv) /\ ~IsSome(rs)
        THEN "nomatch"
        ELSE IF IsVariable(tv) /\ IsSome(ts) /\ ~IsSome(rs)
        THEN "unimplemented"
        ELSE IF IsVariable(tv) /\ ~IsSome(ts)
        THEN "match"
        ELSE IF ~IsSome(ts) /\ ~IsSome(rs)
        THEN IF tv = rv THEN "match" ELSE "nomatch"
        ELSE "nomatch"

\* the loop returning true right after the first pair that matches
compat_loop_first_pair(rule, template, i) ==
    IF i > Min(Len(rule.params), Len(template.params))
    THEN [ret |-> "true", visited |-> <<>>]
    ELSE LET m == parameter_matches(rule.params[i], template.params[i])
         IN  IF m = "unimplemented"
             THEN [ret |-> "panic", visited |-> <<m>>]
             ELSE IF m = "nomatch"
             THEN [ret |-> "false", visited |-> <<m>>]
             ELSE [ret |-> "true", visited |-> <<m>>]

\* the loop over rule.params.iter().zip(template.params.iter()) from pair i
\* on: the value returned ("true", "false", or "panic" when the call does
\* not return) and the parameter_matches of the pairs the loop visited
RECURSIVE compat_loop(_, _, _)
compat_loop(rule, template, i) ==
    IF i > Min(Len(rule.params), Len(template.params))
    THEN [ret |-> "true", visited |-> <<>>]
    ELSE LET m == parameter_matches(rule.params[i], template.params[i])
         IN  IF m = "unimplemented"
             THEN [ret |-> "panic", visited |-> <<m>>]
             ELSE IF m = "nomatch"
             THEN [ret |-> "false", visited |-> <<m>>]
             ELSE LET rest == compat_loop(rule, template, i + 1)
                  IN  [ret |-> rest.ret, visited |-> <<m>> \o rest.visited]

check_rule_compatibility(rule, template) == compat_loop(rule, template, 1)

(***************************************************************************)
(* The inputs of the knowledge base operations.                            *)
(***************************************************************************)
ScopeNames == {"default", "repo"}

PA == Parameter(Variable("x"), Instance("A", NoFields))
PB == Parameter(Variable("x"), Instance("B", NoFields))

\* the templates the loader registers
TemplateUniverse ==
    { Rule("f", <<PA>>),
      Rule("f", <<PB>>),
      Rule("f", <<PA, PB>>) }

\* the rules the loader adds
RuleUniverse ==
    { Rule("f", <<PB>>),
      Rule("f", <<Parameter(Number(1), None)>>),
      Rule("f", <<PA, PB>>),
      Rule("g", <<PB>>) }

ConstantNames == {"c"}
ConstantValues == {1, 2}
InlineQueries == {"q"}

NoRule == Rule("", <<>>)

(***************************************************************************)
(* Scope and the maps it holds.  A HashMap is a function whose domain is   *)
(* the set of keys present.                                                *)
(***************************************************************************)
HashMap_new == [k \in {} |-> 0]

\* map.entry(key).or_insert(default): the map with key present
entry_or_insert(map, key, default) ==
    [k \in DOMAIN map \cup {key} |-> IF k \in DOMAIN map THEN map[k] ELSE default]

\* map.insert(key, value): value replaces what key held
insert(map, key, value) ==
    [k \in DOMAIN map \cup {key} |-> IF k = key THEN value ELSE map[k]]

\* Scope::new naming every scope "default"
Scope_new_named_default(name) ==
    [ name |-> "default",
      constants |-> HashMap_new,
      rule_templates |-> HashMap_new,
      rules |-> HashMap_new ]

Scope_new(name) ==
    [ name |-> name,
      constants |-> HashMap_new,
      rule_templates |-> HashMap_new,
      rules |-> HashMap_new ]

\* the clause-set of the rules of one name, in the order they were added
GenericRule_new(name, rules) == [name |-> name, rules |-> rules]
GenericRule_add_rule(generic_rule, rule) ==
    [generic_rule EXCEPT !.rules = Append(@, rule)]

KnowledgeBase_new == insert(HashMap_new, "default", Scope_new("default"))

(***************************************************************************)
(* add_rule.                                                               *)
(***************************************************************************)
\* the for loop of add_rule over the templates of the rule's name, from
\* template i on, with the two flags as they stand; panicked when
\* check_rule_compatibility does not return
RECURSIVE templates_loop(_, _, _, _, _)
templates_loop(rule, rule_templates, i, has_template, matched_template) ==
    IF i > Len(rule_templates)
    THEN [ has_template |-> has_template,
           matched_template |-> matched_template,
           panicked |-> FALSE ]
    ELSE IF Len(rule.params) = Len(rule_templates[i].params)
    THEN LET c == check_rule_compatibility(rule, rule_templates[i])
         IN  IF c.ret = "panic"
             THEN [ has_template |-> TRUE,
                    matched_template |-> matched_template,
                    panicked |-> TRUE ]
             ELSE templates_loop(rule, rule_templates, i + 1, TRUE, c.ret = "true")
    ELSE templates_loop(rule, rule_templates, i + 1, has_template, matched_template)

\* the template check failing whenever no template matched, applicable or not
template_check_ignoring_arity(rule, scope) ==
    IF rule.name \in DOMAIN scope.rule_templates
    THEN LET l == templates_loop(rule, scope.rule_templates[rule.name], 1, FALSE, FALSE)
         IN  IF l.panicked THEN "panic"
             ELSE IF ~l.matched_template THEN "TypeError"
             ELSE "Ok"
    ELSE "Ok"

\* the template check of add_rule in a scope: "Ok" when the rule may be
\* added, "TypeError" for Err(RuntimeError::TypeError), "panic" for the
\* unimplemented!() of check_rule_compatibility
template_check(rule, scope) ==
    IF rule.name \in DOMAIN scope.rule_templates
    THEN LET l == templates_loop(rule, scope.rule_templates[rule.name], 1, FALSE, FALSE)
         IN  IF l.panicked THEN "panic"
             ELSE IF l.has_template /\ ~l.matched_template THEN "TypeError"
             ELSE "Ok"
    ELSE "Ok"

\* add_rule(rule, scope) on the scopes map kb: the scopes map it leaves and
\* what the call produces
add_rule(kb, rule, scope) ==
    LET scopes1 == entry_or_insert(kb, scope, Scope_new(scope))
        res == template_check(rule, scopes1[scope])
    IN  IF res # "Ok"
        THEN [scopes |-> scopes1, result |-> res]
        ELSE LET rules1 == entry_or_insert(scopes1[scope].rules, rule.name,
                                           GenericRule_new(rule.name, <<>>))
                 rules2 == [rules1 EXCEPT ![rule.name] = GenericRule_add_rule(@, rule)]
             IN  [ scopes |-> [scopes1 EXCEPT ![scope].rules = rules2],
                   result |-> "Ok" ]

(***************************************************************************)
(* add_rule_template, constant, clear_rules.                               *)
(***************************************************************************)
\* add_rule_template removing the clause-set of the template's name
add_rule_template_dropping_rules(kb, template, scope) ==
    LET scopes1 == entry_or_insert(kb, scope, Scope_new(scope))
        kept == DOMAIN scopes1[scope].rules \ {template.name}
    IN  [scopes1 EXCEPT
            ![scope].rule_templates = entry_or_insert(@, template.name, <<template>>),
            ![scope].rules = [n \in kept |-> scopes1[scope].rules[n]]]

add_rule_template(kb, template, scope) ==
    LET scopes1 == entry_or_insert(kb, scope, Scope_new(scope))
    IN  [scopes1 EXCEPT ![scope].rule_templates =
            entry_or_insert(@, template.name, <<template>>)]

\* constant defining the name in every scope
constant_in_every_scope(kb, name, value) ==
    LET scopes1 == entry_or_insert(kb, "default", Scope_new("default"))
    IN  [s \in DOMAIN scopes1 |->
            [scopes1[s] EXCEPT !.constants = insert(@, name, value)]]

\* constant keeping the value a name already has
constant_keep_first(kb, name, value) ==
    LET scopes1 == entry_or_insert(kb, "default", Scope_new("default"))
    IN  [scopes1 EXCEPT !["default"].constants = entry_or_insert(@, name, value)]

constant(kb, name, value) ==
    LET scopes1 == entry_or_insert(kb, "default", Scope_new("default"))
    IN  [scopes1 EXCEPT !["default"].constants = insert(@, name, value)]

\* clear_rules clearing the rules of the default scope only
clear_rules_default_only(kb) ==
    [s \in DOMAIN kb |->
        IF s = "default" THEN [kb[s] EXCEPT !.rules = HashMap_new] ELSE kb[s]]

\* the loop of clear_rules over the scopes
clear_rules(kb) ==
    [s \in DOMAIN kb |-> [kb[s] EXCEPT !.rules = HashMap_new]]

(***************************************************************************)
(* Lookups.  A Path is a name with an optional scope; an Option is a       *)
(* record with the flag some.                                              *)
(***************************************************************************)
Path_with_name(name) == [has_scope |-> FALSE, scope |-> "", name |-> name]
Path_new(scope, name) == [has_scope |-> TRUE, scope |-> scope, name |-> name]

NoTerm == [some |-> FALSE, value |-> 0]
SomeTerm(v) == [some |-> TRUE, value |-> v]

\* get_included_scope finding a scope included in itself only
get_included_scope_self_only(kb, base, included) ==
    IF included \in DOMAIN kb /\ included = base
    THEN [some |-> TRUE, key |-> included]
    ELSE [some |-> FALSE, key |-> ""]

\* get_included_scope: [some, scope name]; everything is included in everything
get_included_scope(kb, base, included) ==
    IF included \in DOMAIN kb
    THEN [some |-> TRUE, key |-> included]
    ELSE [some |-> FALSE, key |-> ""]

constants_get(scope, name) ==
    IF name \in DOMAIN scope.constants THEN SomeTerm(scope.constants[name]) ELSE NoTerm

lookup_constant(kb, const_path, scope) ==
    IF scope \notin DOMAIN kb THEN NoTerm
    ELSE IF ~const_path.has_scope THEN constants_get(kb[scope], const_path.name)
    ELSE LET inc == get_included_scope(kb, scope, const_path.scope)
         IN  IF inc.some THEN constants_get(kb[inc.key], const_path.name) ELSE NoTerm

is_constant(kb, symbol) ==
    lookup_constant(kb, Path_with_name(symbol), "default").some

NoGenericRule == [some |-> FALSE, rule |-> GenericRule_new("", <<>>), scope |-> ""]

rules_get(scope, name) ==
    IF name \in DOMAIN scope.rules
    THEN [some |-> TRUE, rule |-> scope.rules[name], scope |-> scope.name]
    ELSE NoGenericRule

\* lookup_rule resolving every path in the current scope
lookup_rule_in_current_scope(kb, rule_path, current_scope) ==
    IF current_scope \notin DOMAIN kb THEN NoGenericRule
    ELSE rules_get(kb[current_scope], rule_path.name)

lookup_rule(kb, rule_path, current_scope) ==
    IF current_scope \notin DOMAIN kb THEN NoGenericRule
    ELSE IF ~rule_path.has_scope THEN rules_get(kb[current_scope], rule_path.name)
    ELSE LET inc == get_included_scope(kb, current_scope, rule_path.scope)
         IN  IF inc.some THEN rules_get(kb[inc.key], rule_path.name) ELSE NoGenericRule

(***************************************************************************)
(* Counters.  A Counter is a handle on a shared cell; cells is the store   *)
(* of the cells and a handle is an index in it.  A value is below 2^52 and *)
(* is kept as two digits of base 2^26: hi * 2^26 + lo.                     *)
(***************************************************************************)
LimbBase == 67108864

U52(hi, lo) == [hi |-> hi, lo |-> lo]
Zero == U52(0, 0)
MaxValue == U52(LimbBase - 1, LimbBase - 1)
IsU52(v) == v.hi \in 0..(LimbBase - 1) /\ v.lo \in 0..(LimbBase - 1)
Less(a, b) == a.hi < b.hi \/ (a.hi = b.hi /\ a.lo < b.lo)

\* (v + 1) mod 2^52
Succ(v) ==
    IF v.lo + 1 < LimbBase THEN U52(v.hi, v.lo + 1)
    ELSE U52((v.hi + 1) % LimbBase, 0)

\* Counter::default: a handle on a new cell
Counter_default(store) ==
    [cells |-> Append(store, Zero), handle |-> Len(store) + 1]

\* Counter::clone: another handle on the same cell
Counter_clone(handle) == handle

\* Counter::next: returns the value of the cell and advances it, in one step
Counter_next(store, handle) ==
    [cells |-> [store EXCEPT ![handle] = Succ(@)], value |-> store[handle]]

\* format!("{}", n): the decimal digits of n
DigitChars == <<"0", "1", "2", "3", "4", "5", "6", "7", "8", "9">>

RECURSIVE format_u64(_)
format_u64(n) ==
    LET carry == (n.hi % 10) * LimbBase + n.lo
        q == U52(n.hi \div 10, carry \div 10)
        d == DigitChars[(carry % 10) + 1]
    IN  IF q = Zero THEN <<d>> ELSE Append(format_u64(q), d)

starts_with(str, ch) == Len(str) > 0 /\ str[1] = ch

\* the two counters of KnowledgeBase::new
KnowledgeBase_new_counters ==
    LET id == Counter_default(<<>>)
        gen == Counter_default(id.cells)
    IN  [cells |-> gen.cells,
         counters |-> [id_counter |-> id.handle, gensym_counter |-> gen.handle]]

\* new_id returning the value without advancing the counter
new_id_peek(store, kbc) ==
    [cells |-> store, value |-> store[kbc.id_counter]]

new_id(store, kbc) == Counter_next(store, kbc.id_counter)

\* id_counter returning a handle on a copy of the cell
id_counter_copy(store, kbc) ==
    [cells |-> Append(store, store[kbc.id_counter]), handle |-> Len(store) + 1]

id_counter(store, kbc) ==
    [cells |-> store, handle |-> Counter_clone(kbc.id_counter)]

\* gensym leaving the separator out after a prefix that starts with '_'
gensym_without_separator(store, kbc, prefix) ==
    LET r == Counter_next(store, kbc.gensym_counter)
        next == format_u64(r.value)
    IN  [cells |-> r.cells,
         symbol |-> IF prefix = <<"_">> THEN <<"_">> \o next
                    ELSE IF starts_with(prefix, "_") THEN prefix \o next
                    ELSE <<"_">> \o prefix \o <<"_">> \o next]

\* gensym drawing from the id counter
gensym_from_id_counter(store, kbc, prefix) ==
    LET r == Counter_next(store, kbc.id_counter)
        next == format_u64(r.value)
    IN  [cells |-> r.cells,
         symbol |-> IF prefix = <<"_">> THEN <<"_">> \o next
                    ELSE IF starts_with(prefix, "_") THEN prefix \o <<"_">> \o next
                    ELSE <<"_">> \o prefix \o <<"_">> \o next]

gensym(store, kbc, prefix) ==
    LET r == Counter_next(store, kbc.gensym_counter)
        next == format_u64(r.value)
    IN  [cells |-> r.cells,
         symbol |-> IF prefix = <<"_">> THEN <<"_">> \o next
                    ELSE IF starts_with(prefix, "_") THEN prefix \o <<"_">> \o next
                    ELSE <<"_">> \o prefix \o <<"_">> \o next]

(***************************************************************************)
(* State.                                                                  *)
(***************************************************************************)
VARIABLES
    scopes,         \* KnowledgeBase.scopes
    sources,        \* KnowledgeBase.sources: the number of sources recorded
    inline_queries, \* KnowledgeBase.inline_queries
    registered,     \* the add_rule_template calls made so far, in order
    last,           \* the last call: its operation, its outcome, and the
                    \* rule and scope given to add_rule
    cc_rule,        \* the rule given to check_rule_compatibility
    cc_template,    \* the template given to check_rule_compatibility
    cc_out,         \* what the call produced, "none" before the call
    cells,          \* the cells of the counters
    counters,       \* KnowledgeBase.id_counter and KnowledgeBase.gensym_counter
    handles,        \* the handles id_counter() has returned
    returned        \* what new_id, next and gensym have returned, in order

kbvars == <<scopes, sources, inline_queries, registered, last>>
ccvars == <<cc_rule, cc_template, cc_out>>
ctrvars == <<cells, counters, handles, returned>>
vars == <<scopes, sources, inline_queries, registered, last, cc_rule, cc_template, cc_out,
          cells, counters, handles, returned>>

NotCalled == [ret |-> "none", visited |-> <<>>]

Call(op, rule, scope, result) ==
    [op |-> op, rule |-> rule, scope |-> scope, result |-> result]

\* a call of constant, with the name and the value given
ConstantCall(name, value) ==
    [ op |-> "constant", rule |-> NoRule, scope |-> "", result |-> "Ok",
      name |-> name, value |-> value ]

\* a panic ends the process that holds the knowledge base
Running == last.result # "panic"

\* the number of clauses stored in all the scopes
RECURSIVE SumOver(_, _)
SumOver(f, S) ==
    IF S = {} THEN 0
    ELSE LET x == CHOOSE y \in S : TRUE IN f[x] + SumOver(f, S \ {x})

ClausesIn(scope) ==
    SumOver([n \in DOMAIN scope.rules |-> Len(scope.rules[n].rules)], DOMAIN scope.rules)
NumClauses(kb) == SumOver([s \in DOMAIN kb |-> ClausesIn(kb[s])], DOMAIN kb)

InitKB ==
    /\ scopes = KnowledgeBase_new
    /\ sources = 0
    /\ inline_queries = <<>>
    /\ registered = <<>>
    /\ last = Call("new", NoRule, "", "Ok")
    /\ cells = KnowledgeBase_new_counters.cells
    /\ counters = KnowledgeBase_new_counters.counters
    /\ handles = <<>>
    /\ returned = <<>>

Init ==
    /\ InitKB
    /\ cc_rule = NoRule
    /\ cc_template = NoRule
    /\ cc_out = NotCalled

AddRule ==
    \E rule \in RuleUniverse, scope \in ScopeNames :
        LET r == add_rule(scopes, rule, scope)
        IN  /\ Running
            /\ r.result = "Ok" => NumClauses(scopes) < MaxClauses
            /\ scopes' = r.scopes
            /\ last' = Call("add_rule", rule, scope, r.result)
            /\ UNCHANGED <<sources, inline_queries, registered, ccvars, ctrvars>>

AddRuleTemplate ==
    \E template \in TemplateUniverse, scope \in ScopeNames :
        /\ Running
        /\ scopes' = add_rule_template(scopes, template, scope)
        /\ last' = Call("add_rule_template", NoRule, "", "Ok")
        /\ UNCHANGED <<sources, inline_queries, registered, ccvars, ctrvars>>

Constant ==
    \E name \in ConstantNames, value \in ConstantValues :
        /\ Running
        /\ scopes' = constant(scopes, name, value)
        /\ last' = ConstantCall(name, value)
        /\ UNCHANGED <<sources, inline_queries, registered, ccvars, ctrvars>>

ClearRules ==
    /\ Running
    /\ scopes' = clear_rules(scopes)
    /\ sources' = 0
    /\ inline_queries' = <<>>
    /\ last' = Call("clear_rules", NoRule, "", "Ok")
    /\ UNCHANGED <<registered, ccvars, ctrvars>>

\* the loader loads a source that holds an inline query: it records the
\* source and pushes the query on the public fields
Load ==
    \E q \in InlineQueries :
        /\ Running
        /\ Len(inline_queries) < MaxInline
        /\ sources' = sources + 1
        /\ inline_queries' = Append(inline_queries, q)
        /\ last' = Call("load", NoRule, "", "Ok")
        /\ UNCHANGED <<scopes, registered, ccvars, ctrvars>>

Next ==
    \/ AddRule
    \/ AddRuleTemplate
    \/ Constant
    \/ ClearRules
    \/ Load

Spec == Init /\ [][Next]_vars

(***************************************************************************)
(* The registration of templates and rules with the add_rule_template      *)
(* calls recorded.                                                         *)
(***************************************************************************)
AddRuleTemplateRecorded ==
    \E template \in TemplateUniverse, scope \in ScopeNames :
        /\ Running
        /\ Len(registered) < MaxTemplates
        /\ scopes' = add_rule_template(scopes, template, scope)
        /\ registered' = Append(registered, [template |-> template, scope |-> scope])
        /\ last' = Call("add_rule_template", NoRule, "", "Ok")
        /\ UNCHANGED <<sources, inline_queries, ccvars, ctrvars>>

NextRegistered ==
    \/ AddRuleTemplateRecorded
    \/ AddRule

SpecRegistered == Init /\ [][NextRegistered]_vars

(***************************************************************************)
(* The compatibility check on its own: any rule against any template.      *)
(***************************************************************************)
InitCompat ==
    /\ InitKB
    /\ cc_rule \in {Rule("f", ps) : ps \in ParamLists}
    /\ cc_template \in {Rule("f", ps) : ps \in ParamLists}
    /\ cc_out = NotCalled

CheckCompat ==
    /\ cc_out = NotCalled
    /\ cc_out' = check_rule_compatibility(cc_rule, cc_template)
    /\ UNCHANGED <<cc_rule, cc_template, kbvars, ctrvars>>

NextCompat == CheckCompat

SpecCompat == InitCompat /\ [][NextCompat]_vars

(***************************************************************************)
(* Claims about the knowledge base.  Every action sets last to its own     *)
(* call, so a step that ends with last.op = "add_rule" is an add_rule call *)
(* with the arguments and the outcome that last holds.                     *)
(***************************************************************************)
\* the templates stored under name n in scope s, none when either is absent
TemplatesOf(kb, s, n) ==
    IF s \in DOMAIN kb /\ n \in DOMAIN kb[s].rule_templates
    THEN kb[s].rule_templates[n] ELSE <<>>

\* the clauses stored under name n in scope s, none when either is absent
ClausesOf(kb, s, n) ==
    IF s \in DOMAIN kb /\ n \in DOMAIN kb[s].rules
    THEN kb[s].rules[n].rules ELSE <<>>

SameArityTemplates(kb, rule, s) ==
    LET ts == TemplatesOf(kb, s, rule.name)
    IN  {ts[i] : i \in {j \in DOMAIN ts : Len(ts[j].params) = Len(rule.params)}}

RuleNames == {"f", "g"}

Paths ==
    {Path_with_name(n) : n \in RuleNames \cup ConstantNames}
        \cup {Path_new(q, n) : q \in ScopeNames \cup {"absent"},
                               n \in RuleNames \cup ConstantNames}

AddRuleStep == last'.op = "add_rule"

\* C1: when the scope holds at least one template of the rule's name and
\* arity and the rule is compatible with none of them, add_rule returns the
\* type error and the call leaves the knowledge base as it was.
C1_IncompatibleRuleIsTypeError ==
    [][ ( /\ AddRuleStep
          /\ SameArityTemplates(scopes, last'.rule, last'.scope) # {}
          /\ \A t \in SameArityTemplates(scopes, last'.rule, last'.scope) :
                check_rule_compatibility(last'.rule, t).ret # "true" )
        => ( /\ last'.result = "TypeError"
             /\ scopes' = scopes
             /\ sources' = sources
             /\ inline_queries' = inline_queries ) ]_vars

\* C1, for the calls in which check_rule_compatibility returns false for
\* every template of the rule's name and arity: the type error, and the
\* knowledge base as it was.
TypeErrorLeavesKnowledgeBase ==
    [][ ( /\ AddRuleStep
          /\ SameArityTemplates(scopes, last'.rule, last'.scope) # {}
          /\ \A t \in SameArityTemplates(scopes, last'.rule, last'.scope) :
                check_rule_compatibility(last'.rule, t).ret = "false" )
        => ( /\ last'.result = "TypeError"
             /\ scopes' = scopes
             /\ sources' = sources
             /\ inline_queries' = inline_queries ) ]_vars

\* the add_rule_template calls that registered, in scope s, a template of
\* the rule's name and arity
RegisteredFor(rule, s) ==
    { i \in DOMAIN registered :
        /\ registered[i].scope = s
        /\ registered[i].template.name = rule.name
        /\ Len(registered[i].template.params) = Len(rule.params) }

\* C2: when several templates of the rule's name and arity were registered in
\* the scope and the rule is compatible with at least one of them, add_rule
\* succeeds and registers the rule, whatever the order of registration.
C2_CompatibleWithAnyTemplate ==
    [][ ( /\ AddRuleStep
          /\ Cardinality(RegisteredFor(last'.rule, last'.scope)) >= 2
          /\ \E i \in RegisteredFor(last'.rule, last'.scope) :
                check_rule_compatibility(last'.rule, registered[i].template).ret = "true" )
        => ( /\ last'.result = "Ok"
             /\ ClausesOf(scopes', last'.scope, last'.rule.name)
                  = Append(ClausesOf(scopes, last'.scope, last'.rule.name), last'.rule) )
      ]_vars

\* the templates of name n registered in scope s, in registration order
RegisteredTemplates(s, n) ==
    LET calls == SelectSeq(registered,
                           LAMBDA c : c.scope = s /\ c.template.name = n)
    IN  [i \in 1..Len(calls) |-> calls[i].template]

\* C3: the template list stored under a name in a scope holds every template
\* of that name registered in that scope, in registration order.
C3_TemplateListHoldsEveryRegistration ==
    \A s \in ScopeNames, n \in RuleNames :
        TemplatesOf(scopes, s, n) = RegisteredTemplates(s, n)

\* every clause-set but the one under name n in scope s is the same in the
\* two scopes maps
OtherClauseSetsSame(kb, kb2, s, n) ==
    \A s2 \in DOMAIN kb \cup DOMAIN kb2 :
        LET had == IF s2 \in DOMAIN kb THEN DOMAIN kb[s2].rules ELSE {}
            has == IF s2 \in DOMAIN kb2 THEN DOMAIN kb2[s2].rules ELSE {}
        IN  /\ has \ (IF s2 = s THEN {n} ELSE {}) = had \ (IF s2 = s THEN {n} ELSE {})
            /\ \A n2 \in had : (s2 # s \/ n2 # n) => kb2[s2].rules[n2] = kb[s2].rules[n2]

ReachesUnimplemented(kb, rule, s) ==
    \E t \in SameArityTemplates(kb, rule, s) :
        LET c == check_rule_compatibility(rule, t)
        IN  \E i \in DOMAIN c.visited : c.visited[i] = "unimplemented"

\* C9: when add_rule reaches a pair whose template parameter is a variable
\* with a specializer and whose rule parameter is a value with no specializer,
\* the call returns an error value to the caller, it does not panic, and no
\* rule is registered.
C9_UnimplementedIsAnErrorValue ==
    [][ ( /\ AddRuleStep
          /\ ReachesUnimplemented(scopes, last'.rule, last'.scope) )
        => ( /\ last'.result \notin {"Ok", "panic"}
             /\ \A s \in DOMAIN scopes' : \A n \in RuleNames :
                    ClausesOf(scopes', s, n) = ClausesOf(scopes, s, n) ) ]_vars

\* C10: clear_rules leaves every scope's rules map empty, so that lookup_rule
\* finds nothing, and the inline queries empty, and leaves the scopes, their
\* names, constants and templates as they were, so that lookup_constant and
\* the template check of add_rule give what they gave before.
C10_ClearRulesKeepsConstantsAndTemplates ==
    [][ last'.op = "clear_rules"
        => ( /\ \A s \in DOMAIN scopes' : scopes'[s].rules = HashMap_new
             /\ \A p \in Paths, s \in ScopeNames \cup {"absent"} :
                    lookup_rule(scopes', p, s) = NoGenericRule
             /\ inline_queries' = <<>>
             /\ DOMAIN scopes' = DOMAIN scopes
             /\ \A s \in DOMAIN scopes :
                    /\ scopes'[s].name = scopes[s].name
                    /\ scopes'[s].constants = scopes[s].constants
                    /\ scopes'[s].rule_templates = scopes[s].rule_templates
                    /\ \A r \in RuleUniverse :
                           template_check(r, scopes'[s]) = template_check(r, scopes[s])
             /\ \A p \in Paths, s \in ScopeNames \cup {"absent"} :
                    lookup_constant(scopes', p, s) = lookup_constant(scopes, p, s) )
      ]_vars

\* after clear_rules a constant is still found and a template of the scope
\* repo still rejects a rule
C10_Witness ==
    /\ last.op = "clear_rules"
    /\ lookup_constant(scopes, Path_with_name("c"), "default") = SomeTerm(2)
    /\ "repo" \in DOMAIN scopes
    /\ template_check(Rule("f", <<PB>>), scopes["repo"]) = "TypeError"
    /\ \A s \in DOMAIN scopes : scopes[s].rules = HashMap_new
    /\ inline_queries = <<>>

(***************************************************************************)
(* The lookups of the evaluator, in a knowledge base that the loader fills *)
(* with rules and constants.                                               *)
(***************************************************************************)
\* a call of lookup_rule or lookup_constant, with the path and the scope
\* given and the Option returned
LookupCall(op, path, scope, found) ==
    [ op |-> op, rule |-> NoRule, scope |-> scope, result |-> "Ok",
      path |-> path, found |-> found ]

LookupRule ==
    \E path \in Paths, current_scope \in ScopeNames \cup {"absent"} :
        /\ Running
        /\ last' = LookupCall("lookup_rule", path, current_scope,
                              lookup_rule(scopes, path, current_scope))
        /\ UNCHANGED <<scopes, sources, inline_queries, registered, ccvars, ctrvars>>

LookupConstant ==
    \E path \in Paths, scope \in ScopeNames \cup {"absent"} :
        /\ Running
        /\ last' = LookupCall("lookup_constant", path, scope,
                              lookup_constant(scopes, path, scope))
        /\ UNCHANGED <<scopes, sources, inline_queries, registered, ccvars, ctrvars>>

NextLookup ==
    \/ AddRule
    \/ Constant
    \/ LookupRule
    \/ LookupConstant

SpecLookup == Init /\ [][NextLookup]_vars

\* the scope a path is resolved in: the one it names, else the one given
ResolvedScope(path, scope) == IF path.has_scope THEN path.scope ELSE scope

\* C12: lookup_rule returns the clause-set registered under the path's name
\* in the current scope for a bare path, in the scope the path names for a
\* qualified one, from any existing current scope, with the name of the scope
\* that holds it; and nothing, with no error, when the current scope, the
\* named scope or the name is absent.
C12_LookupRuleResolvesPath ==
    last.op = "lookup_rule" =>
        LET q == ResolvedScope(last.path, last.scope)
        IN  /\ last.result = "Ok"
            /\ IF /\ last.scope \in DOMAIN scopes
                  /\ q \in DOMAIN scopes
                  /\ last.path.name \in DOMAIN scopes[q].rules
               THEN /\ last.found.some
                    /\ last.found.rule = scopes[q].rules[last.path.name]
                    /\ last.found.scope = q
               ELSE last.found = NoGenericRule

\* from the default scope, the path repo::f finds the clause-set of repo
C12_Witness ==
    /\ last.op = "lookup_rule"
    /\ last.scope = "default"
    /\ last.path = Path_new("repo", "f")
    /\ last.found.some
    /\ last.found.scope = "repo"
    /\ last.found.rule.rules # <<>>
    /\ "f" \notin DOMAIN scopes["default"].rules

\* C13: lookup_constant returns the value bound to the path's name in the
\* given scope's own constants for a bare path, in the constants of the scope
\* the path names for a qualified one, from any existing scope; and nothing,
\* with no error, when the given scope, the named scope or the name is absent.
C13_LookupConstantResolvesPath ==
    last.op = "lookup_constant" =>
        LET q == ResolvedScope(last.path, last.scope)
        IN  /\ last.result = "Ok"
            /\ IF /\ last.scope \in DOMAIN scopes
                  /\ q \in DOMAIN scopes
                  /\ last.path.name \in DOMAIN scopes[q].constants
               THEN last.found = SomeTerm(scopes[q].constants[last.path.name])
               ELSE last.found = NoTerm

\* from the scope repo, the path default::c finds the constant
C13_Witness ==
    /\ last.op = "lookup_constant"
    /\ last.scope = "repo"
    /\ last.path = Path_new("default", "c")
    /\ last.found = SomeTerm(2)
    /\ "c" \notin DOMAIN scopes["repo"].constants

\* the names is_constant is asked about: those given to constant and one
\* that never is
AskedNames == ConstantNames \cup {"unset"}

\* C11: the scope "default" exists from construction on; constant(name,
\* value) leaves the default scope mapping name to value, whatever it mapped
\* name to before; once is_constant(name) is true it stays true through every
\* later call; and is_constant(name) is false until constant is called with
\* that name.
C11_ConstantsLiveInDefaultScope ==
    /\ "default" \in DOMAIN scopes
    /\ \A n \in AskedNames : ~is_constant(scopes, n)
    /\ [][ /\ "default" \in DOMAIN scopes'
           /\ last'.op = "constant"
                => /\ last'.name \in DOMAIN scopes'["default"].constants
                   /\ scopes'["default"].constants[last'.name] = last'.value
                   /\ is_constant(scopes', last'.name)
           /\ \A n \in AskedNames :
                /\ is_constant(scopes, n) => is_constant(scopes', n)
                /\ (~is_constant(scopes, n) /\ is_constant(scopes', n))
                     => (last'.op = "constant" /\ last'.name = n) ]_vars

\* constant gave c the value 2 in a knowledge base that holds a second scope,
\* a template and a rule
C11_Witness ==
    /\ last = ConstantCall("c", 2)
    /\ scopes["default"].constants["c"] = 2
    /\ is_constant(scopes, "c")
    /\ ~is_constant(scopes, "unset")
    /\ "repo" \in DOMAIN scopes
    /\ TemplatesOf(scopes, "repo", "f") # <<>>
    /\ ClausesOf(scopes, "default", "g") # <<>>

\* C17: every scope stored under a key has that key as its name, so the scope
\* name lookup_rule returns is the key of the scope whose rules map holds the
\* clause-set returned; and every clause-set stored under a name has that
\* name and holds only rules of that name.
C17_KeysAreNames ==
    /\ \A k \in DOMAIN scopes :
          /\ scopes[k].name = k
          /\ \A n \in DOMAIN scopes[k].rules :
                /\ scopes[k].rules[n].name = n
                /\ \A i \in DOMAIN scopes[k].rules[n].rules :
                       scopes[k].rules[n].rules[i].name = n
    /\ \A p \in Paths, s \in ScopeNames \cup {"absent"} :
          LET r == lookup_rule(scopes, p, s)
          IN  r.some => /\ r.scope \in DOMAIN scopes
                        /\ p.name \in DOMAIN scopes[r.scope].rules
                        /\ scopes[r.scope].rules[p.name] = r.rule

\* add_rule created the scope repo and its clause-set of f, which lookup_rule
\* returns with the name repo
C17_Witness ==
    /\ last.op = "add_rule"
    /\ last.scope = "repo"
    /\ last.result = "Ok"
    /\ TemplatesOf(scopes, "repo", "f") = <<>>
    /\ Len(ClausesOf(scopes, "repo", "f")) = 1
    /\ lookup_rule(scopes, Path_new("repo", "f"), "default").scope = "repo"

\* C18: the constants map of every scope other than "default" is empty, so a
\* bare lookup_constant from such a scope finds nothing for every name, while
\* the name qualified with "default" gives, from any existing scope, what the
\* default scope binds it to.
C18_OnlyDefaultScopeHoldsConstants ==
    /\ \A s \in DOMAIN scopes \ {"default"} :
          /\ scopes[s].constants = HashMap_new
          /\ \A n \in AskedNames :
                lookup_constant(scopes, Path_with_name(n), s) = NoTerm
    /\ \A s \in DOMAIN scopes, n \in AskedNames :
          lookup_constant(scopes, Path_new("default", n), s)
            = IF n \in DOMAIN scopes["default"].constants
              THEN SomeTerm(scopes["default"].constants[n])
              ELSE NoTerm

\* constant was called while the scope repo existed: repo holds no constant
\* and finds c through the path default::c
C18_Witness ==
    /\ last.op = "constant"
    /\ "repo" \in DOMAIN scopes
    /\ lookup_constant(scopes, Path_with_name(last.name), "repo") = NoTerm
    /\ lookup_constant(scopes, Path_new("default", last.name), "repo")
          = SomeTerm(last.value)

\* a rule stored in scope s that a template of its name and arity in s does
\* not accept
NonConformingRule(kb) ==
    \E s \in DOMAIN kb : \E n \in DOMAIN kb[s].rules :
        \E i \in DOMAIN kb[s].rules[n].rules :
            LET r == kb[s].rules[n].rules[i]
            IN  \E t \in SameArityTemplates(kb, r, s) :
                    check_rule_compatibility(r, t).ret # "true"

\* C19: add_rule_template never fails and leaves every clause-set and every
\* constant as it was: a rule registered before a template that does not
\* accept it stays registered, and lookup_rule returns the clause-set of
\* every name from its scope as before.
C19_AddRuleTemplateKeepsRules ==
    [][ last'.op = "add_rule_template"
        => ( /\ last'.result = "Ok"
             /\ DOMAIN scopes \subseteq DOMAIN scopes'
             /\ \A s \in DOMAIN scopes :
                    /\ scopes'[s].rules = scopes[s].rules
                    /\ scopes'[s].constants = scopes[s].constants
             /\ \A s \in DOMAIN scopes' \ DOMAIN scopes :
                    /\ scopes'[s].rules = HashMap_new
                    /\ scopes'[s].constants = HashMap_new
             /\ \A s \in DOMAIN scopes : \A n \in DOMAIN scopes[s].rules :
                    /\ lookup_rule(scopes', Path_with_name(n), s).some
                    /\ lookup_rule(scopes', Path_with_name(n), s)
                         = lookup_rule(scopes, Path_with_name(n), s) )
      ]_vars

\* after add_rule_template a stored rule is not accepted by a template of its
\* scope, name and arity
C19_Witness ==
    /\ last.op = "add_rule_template"
    /\ NonConformingRule(scopes)
    /\ lookup_rule(scopes, Path_with_name("f"), "default").some

(***************************************************************************)
(* The counters: new_id, gensym, id_counter and next on the handles that   *)
(* id_counter has returned, with constant and clear_rules in between.  The *)
(* knowledge base has served earlier calls: it holds a rule and a template *)
(* or none, and its counters stand at the start, before a carry of the low *)
(* digit, or two calls before the wrap.                                    *)
(***************************************************************************)
MaxCalls == 3
MaxHandles == 2

Prefixes == { <<"_">>, <<"a">>, <<"_", "a">>, <<"_", "1">> }

BeforeWrap == U52(LimbBase - 1, LimbBase - 2)
\* the values of the id counter and of the gensym counter at the start
CounterStarts ==
    { <<Zero, U52(0, 9)>>,
      <<U52(0, LimbBase - 1), BeforeWrap>>,
      <<BeforeWrap, Zero>> }

LoadedKB ==
    add_rule(add_rule_template(KnowledgeBase_new, Rule("f", <<PA>>), "repo"),
             Rule("g", <<PB>>), "repo").scopes

\* what a call returned: the value of the counter, and for gensym the prefix
\* given and the symbol made
Returned(op, value, prefix, symbol) ==
    [op |-> op, value |-> value, prefix |-> prefix, symbol |-> symbol]

InitCounter ==
    /\ scopes \in {KnowledgeBase_new, LoadedKB}
    /\ sources = 0
    /\ inline_queries = <<>>
    /\ registered = <<>>
    /\ last = Call("new", NoRule, "", "Ok")
    /\ counters = KnowledgeBase_new_counters.counters
    /\ cells \in {[KnowledgeBase_new_counters.cells
                      EXCEPT ![counters.id_counter] = st[1],
                             ![counters.gensym_counter] = st[2]] :
                        st \in CounterStarts}
    /\ handles = <<>>
    /\ returned = <<>>
    /\ cc_rule = NoRule
    /\ cc_template = NoRule
    /\ cc_out = NotCalled

NewId ==
    LET r == new_id(cells, counters)
    IN  /\ Running
        /\ Len(returned) < MaxCalls
        /\ cells' = r.cells
        /\ returned' = Append(returned, Returned("new_id", r.value, <<>>, <<>>))
        /\ last' = Call("new_id", NoRule, "", "Ok")
        /\ UNCHANGED <<scopes, sources, inline_queries, registered, counters, handles, ccvars>>

IdCounter ==
    LET r == id_counter(cells, counters)
    IN  /\ Running
        /\ Len(handles) < MaxHandles
        /\ cells' = r.cells
        /\ handles' = Append(handles, r.handle)
        /\ last' = Call("id_counter", NoRule, "", "Ok")
        /\ UNCHANGED <<scopes, sources, inline_queries, registered, counters, returned, ccvars>>

\* a holder of a handle calls next on it
HandleNext ==
    \E i \in DOMAIN handles :
        LET r == Counter_next(cells, handles[i])
        IN  /\ Running
            /\ Len(returned) < MaxCalls
            /\ cells' = r.cells
            /\ returned' = Append(returned, Returned("next", r.value, <<>>, <<>>))
            /\ last' = Call("next", NoRule, "", "Ok")
            /\ UNCHANGED <<scopes, sources, inline_queries, registered, counters, handles, ccvars>>

Gensym ==
    \E prefix \in Prefixes :
        LET r == gensym(cells, counters, prefix)
            n == cells[counters.gensym_counter]
        IN  /\ Running
            /\ Len(returned) < MaxCalls
            /\ cells' = r.cells
            /\ returned' = Append(returned, Returned("gensym", n, prefix, r.symbol))
            /\ last' = Call("gensym", NoRule, "", "Ok")
            /\ UNCHANGED <<scopes, sources, inline_queries, registered, counters, handles, ccvars>>

NextCounter ==
    \/ NewId
    \/ IdCounter
    \/ HandleNext
    \/ Gensym
    \/ Constant
    \/ ClearRules

SpecCounter == InitCounter /\ [][NextCounter]_vars

(***************************************************************************)
(* Claims about the counters.                                              *)
(***************************************************************************)
\* the number a sequence of decimal digits denotes
DigitValue(ch) == CHOOSE d \in 0..9 : DigitChars[d + 1] = ch
IsDigit(ch) == \E d \in 0..9 : DigitChars[d + 1] = ch

RECURSIVE DecimalValue(_)
DecimalValue(digits) ==
    IF digits = <<>> THEN Zero
    ELSE LET v == DecimalValue(SubSeq(digits, 1, Len(digits) - 1))
             low == v.lo * 10 + DigitValue(digits[Len(digits)])
         IN  U52(v.hi * 10 + (low \div LimbBase), low % LimbBase)

\* b = a + 1, without wrapping
IsNext(a, b) ==
    \/ b.hi = a.hi /\ b.lo = a.lo + 1
    \/ b.hi = a.hi + 1 /\ a.lo = LimbBase - 1 /\ b.lo = 0

\* what stands before the last '_' of the symbol gensym makes of a prefix
Stem(prefix) ==
    IF prefix = <<"_">> THEN <<>>
    ELSE IF prefix[1] = "_" THEN prefix
    ELSE <<"_">> \o prefix

\* the characters of a returned symbol after its stem and the '_'
SymbolDigits(e) == SubSeq(e.symbol, Len(Stem(e.prefix)) + 2, Len(e.symbol))
SymbolNumber(e) == DecimalValue(SymbolDigits(e))

LastReturned == returned'[Len(returned')]
IsIdCall(e) == e.op \in {"new_id", "next"}
IdCallsBefore == {i \in DOMAIN returned : IsIdCall(returned[i])}
GensymsBefore == {i \in DOMAIN returned : returned[i].op = "gensym"}
Latest(S) == CHOOSE i \in S : \A j \in S : j <= i
KnowledgeBaseUntouched ==
    /\ scopes' = scopes
    /\ sources' = sources
    /\ inline_queries' = inline_queries

\* C14: gensym(prefix) returns "_<n>" for the prefix "_", "<prefix>_<n>" for
\* a prefix that starts with '_' and "_<prefix>_<n>" otherwise, n being the
\* value of the gensym counter, written in decimal, which the call advances
\* by one; while the counter has not wrapped, n is greater than the n of
\* every earlier gensym call and the symbol differs from every symbol
\* returned before, whatever calls were made in between.
C14_GensymFormatAndFreshness ==
    [][ last'.op = "gensym"
        => LET e == LastReturned
               n == cells[counters.gensym_counter]
           IN  /\ Len(returned') = Len(returned) + 1
               /\ e.op = "gensym"
               /\ e.symbol = Stem(e.prefix) \o <<"_">> \o SymbolDigits(e)
               /\ e.prefix = <<"_">> => e.symbol = <<"_">> \o SymbolDigits(e)
               /\ SymbolDigits(e) # <<>>
               /\ \A k \in DOMAIN SymbolDigits(e) : IsDigit(SymbolDigits(e)[k])
               /\ Len(SymbolDigits(e)) > 1 => SymbolDigits(e)[1] # "0"
               /\ SymbolNumber(e) = n
               /\ cells'[counters.gensym_counter] = Succ(n)
               /\ (\A i \in GensymsBefore : SymbolNumber(returned[i]) # MaxValue)
                    => \A i \in GensymsBefore :
                          /\ Less(SymbolNumber(returned[i]), n)
                          /\ returned[i].symbol # e.symbol
      ]_vars

\* three gensym calls from the counter value 9, with clear_rules in between
C14_Witness ==
    /\ last.op = "gensym"
    /\ Len(returned) = MaxCalls
    /\ returned[1].symbol = <<"_", "9">>
    /\ returned[2].symbol = <<"_", "a", "_", "1", "0">>
    /\ returned[MaxCalls].prefix = <<"_", "a">>
    /\ returned[MaxCalls].symbol # returned[2].symbol
    /\ "repo" \in DOMAIN scopes
    /\ scopes["repo"].rules = HashMap_new

\* C15: new_id returns the value of the id counter, which is below 2^52, and
\* advances the counter by one modulo 2^52: the result is greater than every
\* result returned while 2^52 - 1 had not been returned, and the call after
\* the one that returned 2^52 - 1 returns 0.
C15_NewIdAdvancesModulo2To52 ==
    [][ last'.op = "new_id"
        => LET e == LastReturned
               c == cells[counters.id_counter]
               c2 == cells'[counters.id_counter]
           IN  /\ Len(returned') = Len(returned) + 1
               /\ e.op = "new_id"
               /\ e.value = c
               /\ IsU52(e.value)
               /\ IsU52(c2)
               /\ IF c = MaxValue THEN c2 = Zero ELSE IsNext(c, c2)
               /\ (\A i \in IdCallsBefore : returned[i].value # MaxValue)
                    => \A i \in IdCallsBefore : Less(returned[i].value, e.value)
               /\ (IdCallsBefore # {} /\ returned[Latest(IdCallsBefore)].value = MaxValue)
                    => e.value = Zero
      ]_vars

\* new_id returned 2^52 - 2, then 2^52 - 1, then 0
C15_Witness ==
    /\ last.op = "new_id"
    /\ Len(returned) = 3
    /\ \A i \in 1..3 : returned[i].op = "new_id"
    /\ returned[1].value = BeforeWrap
    /\ returned[2].value = MaxValue
    /\ returned[3].value = Zero

\* C16: next on a handle returned by id_counter() and new_id draw from one
\* sequence: either call returns the value of the id counter of the knowledge
\* base and advances that counter by one, so no call is lost, and while the
\* counter has not wrapped no earlier call of either kind returned the value.
C16_HandlesShareTheIdCounter ==
    [][ IsIdCall(last')
        => LET e == LastReturned
               c == cells[counters.id_counter]
           IN  /\ Len(returned') = Len(returned) + 1
               /\ IsIdCall(e)
               /\ e.value = c
               /\ cells'[counters.id_counter] = Succ(c)
               /\ IdCallsBefore # {} => e.value = Succ(returned[Latest(IdCallsBefore)].value)
               /\ (\A i \in IdCallsBefore : returned[i].value # MaxValue)
                    => \A i \in IdCallsBefore : returned[i].value # e.value
      ]_vars

\* next on one handle, new_id, then next on another handle
C16_Witness ==
    /\ last.op = "next"
    /\ Len(handles) = 2
    /\ Len(returned) = 3
    /\ returned[1].op = "next"
    /\ returned[2].op = "new_id"
    /\ returned[3].op = "next"
    /\ returned[1].value = Zero
    /\ returned[3].value = U52(0, 2)

\* C20: gensym leaves the id counter as it is and new_id leaves the gensym
\* counter as it is, and neither changes the scopes, the sources or the
\* inline queries; so new_id returns the successor of what the latest call
\* on the id counter returned, and gensym the successor of the number of the
\* latest gensym, whatever calls of the other kind were made in between.
C20_CountersAreIndependent ==
    [][ /\ last'.op = "gensym"
            => /\ cells'[counters.id_counter] = cells[counters.id_counter]
               /\ cells'[counters.gensym_counter] # cells[counters.gensym_counter]
               /\ KnowledgeBaseUntouched
               /\ GensymsBefore # {}
                    => SymbolNumber(LastReturned)
                         = Succ(SymbolNumber(returned[Latest(GensymsBefore)]))
        /\ last'.op = "new_id"
            => /\ cells'[counters.gensym_counter] = cells[counters.gensym_counter]
               /\ cells'[counters.id_counter] # cells[counters.id_counter]
               /\ KnowledgeBaseUntouched
               /\ IdCallsBefore # {}
                    => LastReturned.value = Succ(returned[Latest(IdCallsBefore)].value)
      ]_vars

\* new_id, gensym, new_id on a knowledge base that holds a constant, a
\* template and a rule
C20_Witness ==
    /\ last.op = "new_id"
    /\ Len(returned) = 3
    /\ returned[1].op = "new_id"
    /\ returned[2].op = "gensym"
    /\ returned[3].op = "new_id"
    /\ returned[3].value = Succ(returned[1].value)
    /\ "c" \in DOMAIN scopes["default"].constants
    /\ "repo" \in DOMAIN scopes
    /\ TemplatesOf(scopes, "repo", "f") # <<>>
    /\ ClausesOf(scopes, "repo", "g") # <<>>

(***************************************************************************)
(* Claims about check_rule_compatibility, under SpecCompat.                *)
(***************************************************************************)
Called == cc_out # NotCalled
Zipped == 1..Min(Len(cc_rule.params), Len(cc_template.params))
Visited == 1..Len(cc_out.visited)
TP(i) == cc_template.params[i]
RP(i) == cc_rule.params[i]

BothInstance(i) ==
    /\ IsVariable(TP(i).parameter) /\ IsInstance(TP(i).specializer)
    /\ IsVariable(RP(i).parameter) /\ IsInstance(RP(i).specializer)

\* the template's instance pattern is met by the rule's: same tag, and each
\* field the template names is named by the rule with an equal value
InstanceMet(t, r) ==
    /\ t.tag = r.tag
    /\ DOMAIN t.fields \subseteq DOMAIN r.fields
    /\ \A k \in DOMAIN t.fields : r.fields[k] = t.fields[k]

\* C5: where the template and the rule both have a variable with an
\* instance-pattern specializer, the position matches if and only if the tags
\* are equal and every field of the template's pattern is in the rule's pattern
\* with an equal value; for one-parameter rules that is the call's result.
C5_InstancePatternMatch ==
    Called =>
        /\ \A i \in Visited :
              BothInstance(i) =>
                  (cc_out.visited[i] = "match"
                      <=> InstanceMet(TP(i).specializer, RP(i).specializer))
        /\ (Len(cc_rule.params) = 1 /\ Len(cc_template.params) = 1 /\ BothInstance(1))
              => (cc_out.ret = "true"
                      <=> InstanceMet(TP(1).specializer, RP(1).specializer))
        /\ (Len(cc_rule.params) = 1 /\ Len(cc_template.params) = 1 /\ BothInstance(1))
              => cc_out.ret \in {"true", "false"}

\* a rule whose pattern has the template's field and one more is accepted
C5_Witness ==
    /\ Called
    /\ cc_template.params = <<Parameter(Variable("x"), Instance("A", FieldsK(1)))>>
    /\ cc_rule.params = <<Parameter(Variable("x"), Instance("A", FieldsKJ(1, 1)))>>
    /\ cc_out.ret = "true"

\* C6: the compatibility check is reflexive: check_rule_compatibility(T, T)
\* returns true for every template T.
C6_Reflexive ==
    (Called /\ cc_rule = cc_template) => cc_out.ret = "true"

UnspecializedVariable(p) == IsVariable(p.parameter) /\ ~IsSome(p.specializer)

\* C7: a position where the template has a variable and no specializer
\* matches for every rule parameter, and a rule is compatible with a template
\* of its own arity whose positions are all unspecialized variables.
C7_UnspecializedVariableMatchesAll ==
    Called =>
        /\ \A i \in Visited :
              UnspecializedVariable(TP(i)) => cc_out.visited[i] = "match"
        /\ ( /\ Len(cc_rule.params) = Len(cc_template.params)
             /\ \A i \in Zipped : UnspecializedVariable(TP(i)) )
              => /\ cc_out.ret = "true"
                 /\ Len(cc_out.visited) = Len(cc_template.params)

\* a number with a specializer is accepted at an unspecialized variable
C7_Witness ==
    /\ Called
    /\ Len(cc_template.params) = MaxArity
    /\ Len(cc_rule.params) = MaxArity
    /\ \A i \in Zipped : UnspecializedVariable(TP(i))
    /\ cc_rule.params[1] = Parameter(Number(2), Instance("A", NoFields))
    /\ cc_out.ret = "true"

BothConcreteUnspecialized(i) ==
    /\ ~IsVariable(TP(i).parameter) /\ ~IsSome(TP(i).specializer)
    /\ ~IsVariable(RP(i).parameter) /\ ~IsSome(RP(i).specializer)

\* C8: where the template and the rule both have a concrete value and no
\* specializer the position matches if and only if the values are equal, and
\* the check returns true if and only if every zipped pair matches.
C8_ConcreteValuesAndAllPairs ==
    Called =>
        /\ \A i \in Visited :
              BothConcreteUnspecialized(i) =>
                  (cc_out.visited[i] = "match" <=> TP(i).parameter = RP(i).parameter)
        /\ cc_out.ret = "true"
              <=> \A i \in Zipped : parameter_matches(RP(i), TP(i)) = "match"
        /\ cc_out.ret = "true" => Len(cc_out.visited) = Cardinality(Zipped)

\* a first pair of equal numbers, a second pair that does not match: rejected
C8_Witness ==
    /\ Called
    /\ Len(cc_rule.params) = 2 /\ Len(cc_template.params) = 2
    /\ BothConcreteUnspecialized(1)
    /\ TP(1).parameter = RP(1).parameter
    /\ parameter_matches(RP(2), TP(2)) = "nomatch"
    /\ cc_out.ret = "false"

=============================================================================
